---- MODULE Spec2Model ----
(***************************************************************************)
(* claude-review: a command-line run computes a git diff, has an external  *)
(* agent write claude-review.md, resolves the Azure DevOps pull request    *)
(* and reconciles the review comment thread on it.                         *)
(*                                                                         *)
(* Text is modelled as a sequence of atoms (an atom is a fixed piece of    *)
(* text); String.includes(x) is "some atom equals x", concatenation is \o. *)
(* A value that may be null is either Null or a record.                    *)
(***************************************************************************)
EXTENDS Integers, Sequences, FiniteSets, TLC

\* ------------------------------------------------------------------ bounds
\* number of tool runs executed one after another
MaxRuns == 2
\* number of options given on a command line
MaxFlags == 2
\* number of file segments in a diff handed to the sanitizer on its own
MaxSegments == 2
MaxChars == 5
MaxPrs == 2

\* ------------------------------------------------------------ text helpers
Null == [null |-> TRUE]

Marker == "# Claude Code Review"
NL2 == "\n\n"
Separator == "---"
UpdatedHeading == "**Updated Review:**"

Whitespace == {" ", "\n", NL2}

includes(content, atom) == \E i \in DOMAIN content : content[i] = atom

RECURSIVE trimStart(_)
trimStart(s) ==
  IF s = <<>> THEN <<>>
  ELSE IF Head(s) \in Whitespace THEN trimStart(Tail(s)) ELSE s

RECURSIVE trimEnd(_)
trimEnd(s) ==
  IF s = <<>> THEN <<>>
  ELSE IF s[Len(s)] \in Whitespace THEN trimEnd(SubSeq(s, 1, Len(s) - 1)) ELSE s

trim(s) == trimEnd(trimStart(s))

RECURSIVE join(_)
join(lines) ==
  IF lines = <<>> THEN <<>>
  ELSE IF Len(lines) = 1 THEN lines[1]
  ELSE lines[1] \o <<"\n">> \o join(Tail(lines))

IsPrefix(s, t) == Len(s) <= Len(t) /\ SubSeq(t, 1, Len(s)) = s

\* ------------------------------------------------------------ getGitDiff
lockFiles == {"package-lock.json", "yarn.lock", "pnpm-lock.yaml", "bun.lockb",
              "Cargo.lock", "Gemfile.lock", "composer.lock", "Pipfile.lock",
              "poetry.lock"}

DiffHeader == "diff --git"

startsWithDiffGit(line) == line # <<>> /\ line[1] = DiffHeader

\* the filter loop of getGitDiff: skipFile is carried from line to line
RECURSIVE filterLines(_, _)
filterLines(lines, skipFile) ==
  IF lines = <<>> THEN <<>>
  ELSE LET line == Head(lines)
           skip == IF startsWithDiffGit(line)
                   THEN \E lockFile \in lockFiles : includes(line, lockFile)
                   ELSE skipFile
       IN  (IF skip THEN <<>> ELSE <<line>>) \o filterLines(Tail(lines), skip)

getGitDiff(fullDiffLines) == join(filterLines(fullDiffLines, FALSE))

\* the lines `git diff` can print (fullDiff.split("\n")): the last element is
\* the empty string that follows the final newline
LockSegment == << <<DiffHeader, " ", "a/", "package-lock.json", " ", "b/", "package-lock.json">>,
                  <<"+", "lock">> >>
CodeSegment == << <<DiffHeader, " ", "a/", "src/x.ts", " ", "b/", "src/x.ts">>,
                  <<"+", "code">> >>
RawDiffs == { << <<>> >>,
              LockSegment \o << <<>> >>,
              LockSegment \o CodeSegment \o << <<>> >>,
              CodeSegment \o << <<>> >> }

\* ------------------------------------------------- git.ts: remote parsing
decodeURIComponent(atom) == IF atom = "CIS%20Planning" THEN "CIS Planning" ELSE atom

HttpsRemote == <<"https://dev.azure.com/", "o", "/", "CIS%20Planning", "/_git/", "r">>
SshRemote == <<"o", "@vs-ssh.visualstudio.com:v3/", "o", "/", "CIS%20Planning", "/", "r">>
GithubRemote == <<"https://github.com/", "user", "/", "r", ".git">>
LegacyRemote == <<"https://", "o", ".visualstudio.com/", "CIS%20Planning", "/_git/", "r">>
RemoteUrls == {HttpsRemote, SshRemote, GithubRemote, LegacyRemote}

httpsMatch(remoteUrl) ==
  /\ Len(remoteUrl) >= 6
  /\ remoteUrl[1] = "https://dev.azure.com/"
  /\ remoteUrl[3] = "/"
  /\ remoteUrl[5] = "/_git/"

sshMatch(remoteUrl) ==
  /\ Len(remoteUrl) >= 7
  /\ remoteUrl[2] = "@vs-ssh.visualstudio.com:v3/"
  /\ remoteUrl[4] = "/"
  /\ remoteUrl[6] = "/"

\* variant: the project is returned as matched, without decoding
parseAzureDevOpsRemote_rawProject(remoteUrl) ==
  IF httpsMatch(remoteUrl)
  THEN [organization |-> remoteUrl[2], project |-> remoteUrl[4],
        repository |-> remoteUrl[6]]
  ELSE IF sshMatch(remoteUrl)
  THEN [organization |-> remoteUrl[3], project |-> remoteUrl[5],
        repository |-> remoteUrl[7]]
  ELSE Null

\* Null stands for the thrown "Unable to parse Azure DevOps remote URL" error
parseAzureDevOpsRemote(remoteUrl) ==
  IF httpsMatch(remoteUrl)
  THEN [organization |-> remoteUrl[2],
        project |-> decodeURIComponent(remoteUrl[4]),
        repository |-> remoteUrl[6]]
  ELSE IF sshMatch(remoteUrl)
  THEN [organization |-> remoteUrl[3],
        project |-> decodeURIComponent(remoteUrl[5]),
        repository |-> remoteUrl[7]]
  ELSE Null

\* --------------------------------------------------- pull request objects
\* An optional number is <<>> (undefined) or <<n>>.
CurrentBranch == "feat"

LegacyPrUrl == <<"https://", "o", ".visualstudio.com", "/_apis/git/pullRequests">>
ModernPrUrl == <<"https://dev.azure.com/", "o", "/_apis/git/pullRequests">>

Pr(id, branch, status, url) ==
  [pullRequestId |-> id,
   sourceRefName |-> <<"refs/heads/", branch>>,
   status |-> status,
   repository |-> [name |-> "r", project |-> [name |-> "CIS Planning"]],
   url |-> url]

PrFeat == Pr(<<17>>, "feat", "Active", LegacyPrUrl)
PrOther == Pr(<<42>>, "other", "Active", LegacyPrUrl)
PrFeatDone == Pr(<<42>>, "feat", "Completed", LegacyPrUrl)
PrFeatModern == Pr(<<17>>, "feat", "Active", ModernPrUrl)
PrFeatNoId == Pr(<<>>, "feat", "Active", LegacyPrUrl)

\* the pull requests of the repository, in the order the service lists them
PrLists == { <<>>, <<PrFeat>>, <<PrOther>>, <<PrOther, PrFeat>>, <<PrFeatDone>>,
             <<PrFeatDone, PrFeat>>, <<PrFeatModern>>, <<PrFeatNoId>> }

toString(optNumber) == ToString(optNumber[1])

\* ------------------------------------------------------------ ado.ts
\* variant: the status of the criteria is not looked at
getPullRequests_anyStatus(prs, sourceRefName, statusFilter) ==
  SelectSeq(prs, LAMBDA pr : pr.sourceRefName = sourceRefName)

\* gitApi.getPullRequests(repository, {sourceRefName, status?}, project):
\* statusFilter is "" when the criteria carry no status
getPullRequests(prs, sourceRefName, statusFilter) ==
  SelectSeq(prs, LAMBDA pr : /\ pr.sourceRefName = sourceRefName
                             /\ (statusFilter = "" \/ pr.status = statusFilter))

\* Null when no pull request is found
findPullRequest(prs, branchName) ==
  LET sourceRefName == <<"refs/heads/", branchName>>
      active == getPullRequests(prs, sourceRefName, "Active")
      pullRequests == IF Len(active) = 0
                      THEN getPullRequests(prs, sourceRefName, "")
                      ELSE active
  IN  IF Len(pullRequests) = 0 THEN Null ELSE pullRequests[1]

\* ------------------------------------------- work item ids (git.ts, ado.ts)
\* a branch name or a PR title is the sequence of its characters here
Digits == {"0", "1", "2", "3", "4", "5", "6", "7", "8", "9"}

\* the longest run of digits a string starts with
RECURSIVE leadingDigits(_)
leadingDigits(s) ==
  IF s # <<>> /\ Head(s) \in Digits
  THEN <<Head(s)>> \o leadingDigits(Tail(s))
  ELSE <<>>

\* s.match(/^(\d{4,})/): the captured group, Null when there is no match
matchWorkItem(s) ==
  LET digits == leadingDigits(s)
  IN  IF Len(digits) >= 4 THEN [text |-> digits] ELSE Null

\* variant: three leading digits are enough
extractWorkItemId_threeDigits(branchName) ==
  LET digits == leadingDigits(branchName)
  IN  IF Len(digits) >= 3 THEN [text |-> digits] ELSE Null

extractWorkItemId(branchName) == matchWorkItem(branchName)

\* title is Null when the argument is absent, [text |-> s] otherwise
extractWorkItemFromPRTitle(title) ==
  IF title = Null THEN Null ELSE matchWorkItem(title.text)

\* ------------------------------------------------ claude-review.ts: pure parts
\* the review file claude-review.md: absent, or present with a content
NoFile == [exists |-> FALSE, content |-> <<>>]
FileWith(content) == [exists |-> TRUE, content |-> content]

\* variant: the emptiness test is missing, a blank file is returned as review
processClaudeOutput_acceptsBlank(reviewFile) ==
  IF ~reviewFile.exists THEN Null
  ELSE [reviewContent |-> reviewFile.content]

\* Null stands for a thrown error
processClaudeOutput(reviewFile) ==
  IF ~reviewFile.exists THEN Null
  ELSE IF trim(reviewFile.content) = <<>> THEN Null
  ELSE [reviewContent |-> reviewFile.content]

AzureConfig(token, org, project, repo, prId) ==
  [token |-> token, org |-> org, project |-> project, repo |-> repo, prId |-> prId]

\* variant: the environment's PR id takes precedence over --azure-pr
getConfigFromEnvVars_envFirst(env, azurePr) ==
  LET prId == IF env.AZURE_DEVOPS_PR_ID # "" THEN env.AZURE_DEVOPS_PR_ID ELSE azurePr
  IN  IF \/ env.AZURE_DEVOPS_TOKEN = "" \/ env.AZURE_DEVOPS_ORG = ""
         \/ env.AZURE_DEVOPS_PROJECT = "" \/ env.AZURE_DEVOPS_REPO = ""
         \/ prId = ""
      THEN Null
      ELSE AzureConfig(env.AZURE_DEVOPS_TOKEN, env.AZURE_DEVOPS_ORG,
                       env.AZURE_DEVOPS_PROJECT, env.AZURE_DEVOPS_REPO, prId)

\* environment variables and options are "" when unset
getConfigFromEnvVars(env, azurePr) ==
  LET prId == IF azurePr # "" THEN azurePr ELSE env.AZURE_DEVOPS_PR_ID
  IN  IF \/ env.AZURE_DEVOPS_TOKEN = "" \/ env.AZURE_DEVOPS_ORG = ""
         \/ env.AZURE_DEVOPS_PROJECT = "" \/ env.AZURE_DEVOPS_REPO = ""
         \/ prId = ""
      THEN Null
      ELSE AzureConfig(env.AZURE_DEVOPS_TOKEN, env.AZURE_DEVOPS_ORG,
                       env.AZURE_DEVOPS_PROJECT, env.AZURE_DEVOPS_REPO, prId)

urlMatch(url) == Len(url) >= 3 /\ url[1] = "https://" /\ url[3] = ".visualstudio.com"

\* variant: the config is built whether or not the token is set
parseAzurePr_anyToken(pr, token) ==
  IF pr.pullRequestId = <<>> THEN Null
  ELSE IF ~urlMatch(pr.url) THEN Null
  ELSE AzureConfig(token, pr.url[2], pr.repository.project.name,
                   pr.repository.name, toString(pr.pullRequestId))

parseAzurePr(pr, token) ==
  IF pr.pullRequestId = <<>> THEN Null
  ELSE IF ~urlMatch(pr.url) THEN Null
  ELSE IF token = "" THEN Null
  ELSE AzureConfig(token, pr.url[2], pr.repository.project.name,
                   pr.repository.name, toString(pr.pullRequestId))

\* pr.sourceRefName.replace("refs/heads/", "")
stripRefsHeads(sourceRefName) ==
  IF \E i \in DOMAIN sourceRefName : sourceRefName[i] = "refs/heads/"
  THEN LET i == CHOOSE k \in DOMAIN sourceRefName :
                  /\ sourceRefName[k] = "refs/heads/"
                  /\ \A j \in 1..(k - 1) : sourceRefName[j] # "refs/heads/"
       IN  SubSeq(sourceRefName, 1, i - 1) \o SubSeq(sourceRefName, i + 1, Len(sourceRefName))
  ELSE sourceRefName

\* variant: the last match is taken
matchingPrIndex_last(prs, currentBranch) ==
  LET hits == {i \in DOMAIN prs : stripRefsHeads(prs[i].sourceRefName) = <<currentBranch>>}
  IN  IF hits = {} THEN 0 ELSE CHOOSE i \in hits : \A j \in hits : i >= j

\* prs.find(pr => branchName === currentBranch): index of the match, 0 if none
matchingPrIndex(prs, currentBranch) ==
  LET hits == {i \in DOMAIN prs : stripRefsHeads(prs[i].sourceRefName) = <<currentBranch>>}
  IN  IF hits = {} THEN 0 ELSE CHOOSE i \in hits : \A j \in hits : i <= j

\* The body of getConfigFromAzureCli once `az repos pr list` has answered
\* with prs; showPr is what `az repos pr show --id` answers (Null: it fails).
\* The result carries the config and whether prs.find and pr show were run.
azureCliSelect(prs, showPr, azurePr, token, currentBranch) ==
  LET show == IF showPr = Null THEN Null ELSE parseAzurePr(showPr, token)
      m == matchingPrIndex(prs, currentBranch)
  IN  IF Len(prs) = 0
      THEN IF azurePr # ""
           THEN [config |-> show, matched |-> FALSE, shown |-> TRUE]
           ELSE [config |-> Null, matched |-> FALSE, shown |-> FALSE]
      ELSE IF m # 0
      THEN [config |-> parseAzurePr(prs[m], token), matched |-> TRUE, shown |-> FALSE]
      ELSE IF azurePr # ""
      THEN [config |-> show, matched |-> TRUE, shown |-> TRUE]
      ELSE [config |-> Null, matched |-> TRUE, shown |-> FALSE]

\* ------------------------------------------------ comment threads of a PR
Comment(id, content) == [id |-> id, content |-> content]
Thread(id, comments) == [id |-> id, comments |-> comments]

isMarked(thread) ==
  /\ Len(thread.comments) > 0
  /\ includes(thread.comments[1].content, Marker)

MarkedThreads(ts) == {i \in DOMAIN ts : isMarked(ts[i])}

\* a fetch either rejects (Thrown) or yields a response; a body that is not
\* JSON is Null
Thrown == [thrown |-> TRUE]
Response(statusCode, body) == [statusCode |-> statusCode, body |-> body]

is2xx(response) == response.statusCode >= 200 /\ response.statusCode < 300

\* variant: the loop does not return at the first hit, the last one wins
firstMarkedComment_last(ts) ==
  LET hits == MarkedThreads(ts)
  IN  IF hits = {} THEN Null
      ELSE LET i == CHOOSE k \in hits : \A j \in hits : k >= j
           IN  [threadId |-> ts[i].id,
                commentId |-> ts[i].comments[1].id,
                existingContent |-> ts[i].comments[1].content]

\* the loop over threads.value: the first thread, in listing order, whose
\* first comment contains the marker; Null when there is none
firstMarkedComment(ts) ==
  LET hits == MarkedThreads(ts)
  IN  IF hits = {} THEN Null
      ELSE LET i == CHOOSE k \in hits : \A j \in hits : k <= j
           IN  [threadId |-> ts[i].id,
                commentId |-> ts[i].comments[1].id,
                existingContent |-> ts[i].comments[1].content]

\* variant: the status test is inverted, so a 2xx listing is never searched
findExistingClaudeComment_statusInverted(response) ==
  IF response = Thrown THEN Null
  ELSE IF is2xx(response) THEN Null
  ELSE Null

\* variant: no try/catch around the request and JSON.parse, so a rejected
\* fetch or an unparseable body escapes as an error (Thrown)
findExistingClaudeComment_noCatch(response) ==
  IF response = Thrown THEN Thrown
  ELSE IF ~is2xx(response) THEN Null
  ELSE IF response.body = Null THEN Thrown
  ELSE firstMarkedComment(response.body.value)

\* Null when the request fails or no thread qualifies
findExistingClaudeComment(response) ==
  IF response = Thrown THEN Null
  ELSE IF ~is2xx(response) THEN Null
  ELSE IF response.body = Null THEN Null
  ELSE firstMarkedComment(response.body.value)

\* variant: the review is followed by a note
replaceContent_noted(reviewContent) ==
  <<Marker, NL2>> \o reviewContent \o <<NL2, "(updated)">>

\* variant: the heading written differs from the marker searched for
replaceContent_otherHeading(reviewContent) == <<"# Claude Review", NL2>> \o reviewContent

replaceContent(reviewContent) == <<Marker, NL2>> \o reviewContent

\* variant: the update starts over from the heading instead of the old content
appendContent_dropsOld(existingContent, reviewContent) ==
  <<Marker, NL2, UpdatedHeading, NL2>> \o reviewContent

appendContent(existingContent, reviewContent) ==
  existingContent \o <<NL2, Separator, NL2, UpdatedHeading, NL2>> \o reviewContent

\* ------------------------------------------------------------------ state
VARIABLES
  run,             \* number of the current tool run
  pc,              \* position of the current run in main()
  options,         \* program.opts() of the current run
  token,           \* process.env.AZURE_DEVOPS_TOKEN of the current run ("" unset)
  file,            \* claude-review.md in the working directory
  threads,         \* comment threads of each pull request on the service
  sticky,          \* history: per PR, "clean" / "kept" / "void" (see StickyAfter)
  exitCode,        \* process exit code of the current run, NoExit while running
  gitDiff,         \* main: gitDiff, Null until getGitDiff has returned
  review,          \* main: review
  azureConfig,     \* main: azureConfig
  existingComment, \* postToAzureDevOps: existingComment
  agent,           \* history: whether the agent was spawned and what it wrote
  tried,           \* history: the strategies getAzureDevOpsConfig has run, in
                   \* order, kept until main takes the returned config
  prompted,        \* history: the confirmation prompt was shown in this run
  answer,          \* history: response.post of that prompt, "" while not given
  http,            \* history: REST requests of this run, in order
  fatal,           \* history: the fatal condition this run has met, "" if none
  attempted,       \* history: getAzureDevOpsConfig was called in this run
  call,            \* a function applied on its own: its name and arguments
  result,          \* what that call returned, Pending until it is applied
  ado,             \* a call of updateWorkItem (ado.ts): its arguments, the
                   \* service it talks to, its position and its SDK calls
  posters          \* two concurrent calls of postToAzureDevOps, per process

vars == <<run, pc, options, token, file, threads, sticky, exitCode, gitDiff,
          review, azureConfig, existingComment, agent, tried, prompted, answer, http,
          fatal, attempted, call, result, ado, posters>>

NoExit == -1

\* no function is applied on its own while the tool runs
NoCall == [fn |-> ""]
Pending == [pending |-> TRUE]

\* neither updateWorkItem nor a pair of concurrent posters is being followed
Unused == [unused |-> TRUE]

\* the pull requests that exist on the service
ServerPrIds == {"17"}

AllOptions ==
  [post : {"true", "false", "undefined"},
   azurePr : {"", "42"},
   useEnvVars : BOOLEAN,
   useExistingReview : BOOLEAN,
   append : BOOLEAN,
   newComment : BOOLEAN,
   removeReviewFile : BOOLEAN]

DefaultOptions ==
  [post |-> "undefined", azurePr |-> "", useEnvVars |-> FALSE,
   useExistingReview |-> FALSE, append |-> FALSE, newComment |-> FALSE,
   removeReviewFile |-> FALSE]

OptionNames == {"post", "azurePr", "useEnvVars", "useExistingReview", "append",
                "newComment", "removeReviewFile"}

\* command lines giving at most MaxFlags options
OptionSets ==
  {o \in AllOptions :
     Cardinality({n \in OptionNames : o[n] # DefaultOptions[n]}) <= MaxFlags}

\* documents the review agent may write
AgentDocs == {<<"\n">>, <<"review A">>, <<"review B">>}

NoAgent == [spawned |-> FALSE, wrote |-> Null]

\* thread lists a pull request may carry before the first run
OldThreads ==
  { <<>>,
    <<Thread(1, <<>>),
      Thread(2, <<Comment(1, <<"LGTM">>), Comment(2, <<Marker, NL2, "quoted">>)>>)>>,
    <<Thread(1, <<Comment(1, <<"LGTM">>)>>),
      Thread(2, <<Comment(1, <<Marker, NL2, "old">>)>>)>>,
    <<Thread(1, <<Comment(1, <<Marker, NL2, "old 1">>)>>),
      Thread(2, <<Comment(1, <<Marker, NL2, "old 2">>)>>)>>,
    \* a thread whose first listed comment does not have the id 1
    <<Thread(1, <<Comment(2, <<Marker, NL2, "old">>)>>)>> }

InitialFiles == {NoFile, FileWith(<<"review A">>)}

Init ==
  /\ run = 1
  /\ pc = "idle"
  /\ options = DefaultOptions
  /\ token = ""
  /\ file \in InitialFiles
  /\ \E ts \in OldThreads : threads = [p \in ServerPrIds |-> ts]
  /\ sticky = [p \in ServerPrIds |->
                 IF MarkedThreads(threads[p]) = {} THEN "clean" ELSE "void"]
  /\ exitCode = NoExit
  /\ gitDiff = Null
  /\ review = <<>>
  /\ azureConfig = Null
  /\ existingComment = Null
  /\ agent = NoAgent
  /\ tried = <<>>
  /\ prompted = FALSE
  /\ answer = ""
  /\ http = <<>>
  /\ fatal = ""
  /\ attempted = FALSE
  /\ call = NoCall
  /\ result = Pending
  /\ ado = Unused
  /\ posters = Unused

world == <<run, options, token, threads, sticky>>
locals == <<gitDiff, review, azureConfig, existingComment>>
history == <<agent, tried, prompted, answer, http, attempted>>
pure == <<call, result, ado, posters>>

\* process.exit(code)
Exit(code) == pc' = "done" /\ exitCode' = code

\* ------------------------------------------------------------------ main
\* program.parse(): the command line and the environment of a run
Launch ==
  /\ pc = "idle"
  /\ options' \in OptionSets
  /\ token' \in {"", "tok"}
  /\ pc' = "main"
  /\ UNCHANGED <<run, file, threads, sticky, exitCode, locals, history, fatal, pure>>

\* fs.existsSync(".git") and git rev-parse --verify <compareBranch>
CheckRepository ==
  /\ pc = "main"
  /\ \E isRepo \in BOOLEAN, branchFound \in BOOLEAN :
       /\ fatal' = IF ~isRepo THEN "notGitRepo"
                   ELSE IF ~branchFound THEN "noBranch" ELSE ""
       /\ IF isRepo /\ branchFound
          THEN pc' = "diff" /\ UNCHANGED exitCode
          ELSE Exit(1)
  /\ UNCHANGED <<world, file, locals, history, pure>>

\* variant: the emptiness test is inverted
noChanges_inverted(diffText) == trim(diffText) # <<>>

\* if (!gitDiff.trim())
noChanges(diffText) == trim(diffText) = <<>>

\* getGitDiff and the "No changes to review" exit
GetGitDiff ==
  /\ pc = "diff"
  /\ \/ \E fullDiff \in RawDiffs :
          /\ gitDiff' = [text |-> getGitDiff(fullDiff)]
          /\ IF noChanges(gitDiff'.text)
             THEN Exit(0)
             ELSE pc' = "review" /\ UNCHANGED exitCode
          /\ UNCHANGED fatal
     \/ \* git diff fails twice: "Failed to get git diff"
        /\ fatal' = "diffFailed"
        /\ Exit(1)
        /\ UNCHANGED gitDiff
  /\ UNCHANGED <<world, file, review, azureConfig, existingComment, history, pure>>

\* where main goes after the review is echoed
AfterReview == IF options.post # "false" THEN "resolve" ELSE "cleanup"

\* what is wrong with the review file handed to processClaudeOutput, "" if
\* nothing
unusable(reviewFile) ==
  IF ~reviewFile.exists THEN "noReviewFile"
  ELSE IF \A i \in DOMAIN reviewFile.content : reviewFile.content[i] \in Whitespace
  THEN "emptyReview" ELSE ""

\* options.useExistingReview && fs.existsSync(reviewFile)
UseExistingReview ==
  /\ pc = "review"
  /\ options.useExistingReview /\ file.exists
  /\ fatal' = unusable(file)
  /\ LET out == processClaudeOutput(file)
     IN  IF out = Null
         THEN Exit(1) /\ UNCHANGED review
         ELSE review' = out.reviewContent /\ pc' = AfterReview /\ UNCHANGED exitCode
  /\ UNCHANGED <<world, file, gitDiff, azureConfig, existingComment, history, pure>>

\* runClaudeCode followed by processClaudeOutput
RunClaudeCode ==
  /\ pc = "review"
  /\ ~(options.useExistingReview /\ file.exists)
  /\ \/ \* prompt file not found
        /\ fatal' = "noPromptFile"
        /\ Exit(1)
        /\ UNCHANGED <<file, review, agent>>
     \/ \* the agent exits nonzero
        /\ fatal' = "agentFailed"
        /\ agent' = [spawned |-> TRUE, wrote |-> Null]
        /\ Exit(1)
        /\ UNCHANGED <<file, review>>
     \/ \* the agent exits 0, having written a document or nothing
        \E wrote \in {Null} \cup {[content |-> d] : d \in AgentDocs} :
          /\ agent' = [spawned |-> TRUE, wrote |-> wrote]
          /\ file' = IF wrote = Null THEN file ELSE FileWith(wrote.content)
          /\ fatal' = unusable(file')
          /\ LET out == processClaudeOutput(file')
             IN  IF out = Null
                 THEN Exit(1) /\ UNCHANGED review
                 ELSE /\ review' = out.reviewContent
                      /\ pc' = AfterReview
                      /\ UNCHANGED exitCode
  /\ UNCHANGED <<world, gitDiff, azureConfig, existingComment, tried, prompted, answer, http,
                 attempted, pure>>

\* ------------------------------------------------------- PR resolution
EnvVarSets ==
  [AZURE_DEVOPS_ORG : {"", "o"},
   AZURE_DEVOPS_PROJECT : {"", "CIS Planning"},
   AZURE_DEVOPS_REPO : {"", "r"},
   AZURE_DEVOPS_PR_ID : {"", "17"}]

Env(tok, rest) ==
  [AZURE_DEVOPS_TOKEN |-> tok,
   AZURE_DEVOPS_ORG |-> rest.AZURE_DEVOPS_ORG,
   AZURE_DEVOPS_PROJECT |-> rest.AZURE_DEVOPS_PROJECT,
   AZURE_DEVOPS_REPO |-> rest.AZURE_DEVOPS_REPO,
   AZURE_DEVOPS_PR_ID |-> rest.AZURE_DEVOPS_PR_ID]

\* variant: the remote URL is read and parsed outside the try block, so a
\* failure there is thrown to the caller
getConfigFromGitAndApi_parseThrows(tok, isRepo, branch, remoteUrl, prs, azurePr) ==
  LET remoteInfo == IF remoteUrl = Null THEN Null ELSE parseAzureDevOpsRemote(remoteUrl.url)
      none(why) == [config |-> Null, searched |-> FALSE, threw |-> FALSE, why |-> why]
  IN  IF tok = "" THEN none("noToken")
      ELSE IF ~isRepo THEN none("notRepo")
      ELSE IF branch = Null THEN none("noBranch")
      ELSE IF remoteInfo = Null
      THEN [config |-> Null, searched |-> FALSE, threw |-> TRUE, why |-> "badRemote"]
      ELSE IF azurePr # ""
      THEN [config |-> AzureConfig(tok, remoteInfo.organization, remoteInfo.project,
                                   remoteInfo.repository, azurePr),
            searched |-> FALSE, threw |-> FALSE, why |-> "explicit"]
      ELSE IF prs = Null
      THEN [config |-> Null, searched |-> TRUE, threw |-> FALSE, why |-> "searchThrew"]
      ELSE LET pr == findPullRequest(prs.list, branch.name)
           IN  IF pr = Null
               THEN [config |-> Null, searched |-> TRUE, threw |-> FALSE, why |-> "noPr"]
               ELSE [config |-> AzureConfig(tok, remoteInfo.organization,
                                            remoteInfo.project, remoteInfo.repository,
                                            IF pr.pullRequestId = <<>> THEN ""
                                            ELSE toString(pr.pullRequestId)),
                     searched |-> TRUE, threw |-> FALSE, why |-> "found"]

\* getConfigFromGitAndApi. Inputs are what git and the service answer:
\* isRepo (git rev-parse --git-dir), branch = [name |-> ..] and remoteUrl =
\* [url |-> ..] (Null: the git command fails), prs = [list |-> ..] (the
\* repository's pull requests; Null: the search throws). The result carries
\* the config, whether findPullRequest ran, whether the function threw
\* instead of returning, and the branch it took.
getConfigFromGitAndApi(tok, isRepo, branch, remoteUrl, prs, azurePr) ==
  LET remoteInfo == IF remoteUrl = Null THEN Null ELSE parseAzureDevOpsRemote(remoteUrl.url)
      none(why) == [config |-> Null, searched |-> FALSE, threw |-> FALSE, why |-> why]
  IN  IF tok = "" THEN none("noToken")
      ELSE IF ~isRepo THEN none("notRepo")
      ELSE IF branch = Null THEN none("noBranch")
      ELSE IF remoteInfo = Null THEN none("badRemote")
      ELSE IF azurePr # ""
      THEN [config |-> AzureConfig(tok, remoteInfo.organization, remoteInfo.project,
                                   remoteInfo.repository, azurePr),
            searched |-> FALSE, threw |-> FALSE, why |-> "explicit"]
      ELSE IF prs = Null
      THEN [config |-> Null, searched |-> TRUE, threw |-> FALSE, why |-> "searchThrew"]
      ELSE LET pr == findPullRequest(prs.list, branch.name)
           IN  IF pr = Null
               THEN [config |-> Null, searched |-> TRUE, threw |-> FALSE, why |-> "noPr"]
               ELSE [config |-> AzureConfig(tok, remoteInfo.organization,
                                            remoteInfo.project, remoteInfo.repository,
                                            IF pr.pullRequestId = <<>> THEN ""
                                            ELSE toString(pr.pullRequestId)),
                     searched |-> TRUE, threw |-> FALSE, why |-> "found"]

\* getConfigFromAzureCli. cliOk: az --version, git branch --show-current and
\* az repos pr list all succeed with parseable output; prs: the active pull
\* requests listed; showPr: the answer of az repos pr show (Null: it fails).
getConfigFromAzureCli(cliOk, prs, showPr, azurePr, tok) ==
  IF ~cliOk THEN [config |-> Null, matched |-> FALSE, shown |-> FALSE]
  ELSE azureCliSelect(prs, showPr, azurePr, tok, CurrentBranch)

\* what az repos pr list --status active prints for a repository
activeOnly(prs) == SelectSeq(prs, LAMBDA pr : pr.status = "Active")

\* the pull requests az repos pr show --id <id> can print
PrsWithId(id) ==
  {pr \in {PrFeat, PrOther, PrFeatDone, PrFeatModern} : toString(pr.pullRequestId) = id}

Tried(strategy, config, searched, shown, threw, why) ==
  [strategy |-> strategy, config |-> config, searched |-> searched,
   shown |-> shown, threw |-> threw, why |-> why]

\* variant: a strategy's config is not returned, the chain always runs on
nextStrategy_noStop(strategy, config) ==
  IF strategy = "gitApi" THEN "azureCli"
  ELSE IF strategy = "azureCli" THEN "envVars"
  ELSE "confirm"

\* getAzureDevOpsConfig: return the config of a strategy that produced one,
\* otherwise go on to the strategy after it
nextStrategy(strategy, config) ==
  IF config # Null THEN "confirm"
  ELSE IF strategy = "gitApi" THEN "azureCli"
  ELSE IF strategy = "azureCli" THEN "envVars"
  ELSE "confirm"

\* variant: the flag is not looked at
envVarsOnly_ignored(opts) == FALSE

\* if (options.useEnvVars) return getConfigFromEnvVars()
envVarsOnly(opts) == opts.useEnvVars

\* getAzureDevOpsConfig with --use-env-vars
ResolveFromEnvOnly ==
  /\ pc = "resolve"
  /\ envVarsOnly(options)
  /\ azureConfig' \in { getConfigFromEnvVars(Env(token, rest), options.azurePr) :
                          rest \in EnvVarSets }
  /\ tried' = Append(tried, Tried("envVars", azureConfig', FALSE, FALSE, FALSE, ""))
  /\ pc' = nextStrategy("envVars", azureConfig')
  /\ attempted' = TRUE
  /\ UNCHANGED <<world, file, exitCode, gitDiff, review, existingComment, agent,
                 prompted, answer, http, fatal, pure>>

\* getAzureDevOpsConfig: "Trying git + API detection..."
TryGitAndApi ==
  /\ pc = "resolve"
  /\ ~envVarsOnly(options)
  /\ \E r \in { getConfigFromGitAndApi(token, isRepo, branch, remoteUrl, prs,
                                         options.azurePr) :
                   isRepo \in BOOLEAN,
                   branch \in {Null, [name |-> CurrentBranch]},
                   remoteUrl \in {[url |-> u] : u \in RemoteUrls} \cup {Null},
                   prs \in {[list |-> l] : l \in PrLists} \cup {Null} } :
       LET \* a thrown error is caught: "Git + API detection failed"
           config == IF r.threw THEN Null ELSE r.config
       IN  /\ tried' = Append(tried, Tried("gitApi", config, r.searched, FALSE,
                                           r.threw, r.why))
           /\ azureConfig' = config
           /\ pc' = nextStrategy("gitApi", config)
  /\ attempted' = TRUE
  /\ UNCHANGED <<world, file, exitCode, gitDiff, review, existingComment, agent,
                 prompted, answer, http, fatal, pure>>

\* getAzureDevOpsConfig: "Trying Azure CLI auto-detection..."
TryAzureCli ==
  /\ pc = "azureCli"
  /\ \E r \in { getConfigFromAzureCli(cliOk, prs, showPr, options.azurePr, token) :
                   cliOk \in BOOLEAN,
                   prs \in {activeOnly(l) : l \in PrLists},
                   showPr \in PrsWithId(options.azurePr) \cup {Null} } :
           /\ tried' = Append(tried, Tried("azureCli", r.config, r.matched, r.shown,
                                           FALSE, ""))
           /\ azureConfig' = r.config
           /\ pc' = nextStrategy("azureCli", r.config)
  /\ UNCHANGED <<world, file, exitCode, gitDiff, review, existingComment, agent,
                 prompted, answer, http, fatal, attempted, pure>>

\* getAzureDevOpsConfig: "Falling back to environment variables"
FallBackToEnvVars ==
  /\ pc = "envVars"
  /\ azureConfig' \in { getConfigFromEnvVars(Env(token, rest), options.azurePr) :
                          rest \in EnvVarSets }
  /\ tried' = Append(tried, Tried("envVars", azureConfig', FALSE, FALSE, FALSE, ""))
  /\ pc' = nextStrategy("envVars", azureConfig')
  /\ UNCHANGED <<world, file, exitCode, gitDiff, review, existingComment, agent,
                 prompted, answer, http, fatal, attempted, pure>>

\* variant: the prompt is shown before the config is tested
asksUser_beforeLookup(config, post) == post # "true"

\* main: the prompt is shown when a destination is known and --post is not
\* given
asksUser(config, post) == config # Null /\ post # "true"

\* what prompts() can resolve to: the choice, or no `post` key when the
\* prompt is cancelled
PromptAnswers == {"true", "false", "undefined"}

\* variant: only an explicit "no" stops the posting, a cancelled prompt
\* counts as the initial value
shouldPost_unlessDeclined(post, given) ==
  IF post = "true" THEN TRUE ELSE given # "false"

\* let shouldPost = options.post; if (!shouldPost) shouldPost = response.post
shouldPost(post, given) ==
  IF post = "true" THEN TRUE ELSE given = "true"

\* main: the warning when no PR is known, --post, or the confirmation prompt
Confirm ==
  /\ pc = "confirm"
  /\ prompted' = asksUser(azureConfig, options.post)
  /\ answer' \in IF prompted' THEN PromptAnswers ELSE {""}
  /\ pc' = IF azureConfig # Null /\ shouldPost(options.post, answer')
           THEN "post" ELSE "cleanup"
  /\ tried' = <<>>
  /\ UNCHANGED <<world, file, exitCode, locals, agent, http, fatal, attempted, pure>>


\* ------------------------------------------- the Azure DevOps REST service
\* how a request fares: "ok" (the service handles it), "error" (the service
\* answers 500 and changes nothing), "throw" (fetch rejects), and for the
\* listing also "garbled" (a 2xx answer whose body is not JSON)
NetOutcomes == {"ok", "error", "throw"}

\* GET .../pullRequests/{prId}/threads
serveList(ts, prId) ==
  IF prId \in ServerPrIds THEN Response(200, [value |-> ts[prId]])
  ELSE Response(404, [message |-> "not found"])

\* POST .../pullRequests/{prId}/threads: the new thread gets the next id and
\* its comment the id 1
servePost(ts, prId, content) ==
  IF prId \in ServerPrIds
  THEN [threads |-> [ts EXCEPT ![prId] =
                       Append(@, Thread(Len(@) + 1, <<Comment(1, content)>>))],
        response |-> Response(200, [message |-> "created"])]
  ELSE [threads |-> ts, response |-> Response(404, [message |-> "not found"])]

hasComment(thread, threadId, commentId) ==
  /\ thread.id = threadId
  /\ \E k \in DOMAIN thread.comments : thread.comments[k].id = commentId

\* PATCH .../pullRequests/{prId}/threads/{threadId}/comments/{commentId}
servePatch(ts, prId, threadId, commentId, content) ==
  IF /\ prId \in ServerPrIds
     /\ \E i \in DOMAIN ts[prId] : hasComment(ts[prId][i], threadId, commentId)
  THEN [threads |-> [ts EXCEPT ![prId] =
          [i \in DOMAIN @ |->
             IF @[i].id = threadId
             THEN [@[i] EXCEPT !.comments =
                     [k \in DOMAIN @ |->
                        IF @[k].id = commentId
                        THEN [@[k] EXCEPT !.content = content]
                        ELSE @[k]]]
             ELSE @[i]]],
        response |-> Response(200, [message |-> "updated"])]
  ELSE [threads |-> ts, response |-> Response(404, [message |-> "not found"])]

Request(method, prId, threadId, commentId, content, response) ==
  [method |-> method, prId |-> prId, threadId |-> threadId,
   commentId |-> commentId, content |-> content, response |-> response]

\* history of a pull request: "clean" while it has no marked thread and no
\* run has posted to it; "kept" once runs have posted to it, all of them in
\* replace or append mode with every request answered 2xx; "void" otherwise
StickyAfter(st, prId, good, wrote) ==
  IF prId \notin ServerPrIds THEN st
  ELSE [st EXCEPT ![prId] = IF @ = "void" \/ ~good THEN "void"
                            ELSE IF wrote THEN "kept" ELSE @]

\* ------------------------------------------------------ postToAzureDevOps
\* the comment id updateExistingComment puts in the URL
PatchedCommentId == 1

\* variant: --append takes precedence over --new-comment
createsUnconditionally_unlessAppend(opts) == opts.newComment /\ ~opts.append

\* if (options.newComment)
createsUnconditionally(opts) == opts.newComment

\* variant: a write that is not answered 2xx is attempted again
afterWrite_retry(response) ==
  IF response # Thrown /\ is2xx(response) THEN "cleanup" ELSE "write"

\* postToAzureDevOps after the write: success or failure is reported on the
\* spinner, a thrown error is caught, and the function returns to main
afterWrite(response) == "cleanup"

\* findExistingClaudeComment: the thread listing
FindExisting ==
  /\ pc = "post"
  /\ ~createsUnconditionally(options)
  /\ \E net \in NetOutcomes \cup {"garbled"} :
       LET response == CASE net = "ok" -> serveList(threads, azureConfig.prId)
                         [] net = "garbled" -> Response(200, Null)
                         [] net = "error" -> Response(500, [message |-> "error"])
                         [] net = "throw" -> Thrown
           found == findExistingClaudeComment(response)
       IN  \* an error escaping the search ends postToAzureDevOps in its catch
           /\ existingComment' = IF found = Thrown THEN Null ELSE found
           /\ pc' = IF found = Thrown THEN "cleanup" ELSE "write"
           /\ http' = Append(http, Request("GET", azureConfig.prId, 0, 0, <<>>, response))
           /\ sticky' = StickyAfter(sticky, azureConfig.prId,
                                    net = "ok" /\ is2xx(response), FALSE)
  /\ UNCHANGED <<run, options, token, threads, file, exitCode, gitDiff, review,
                 azureConfig, agent, tried, prompted, answer, fatal, attempted, pure>>

\* updateExistingComment with the replaced or appended content
UpdateExistingComment ==
  /\ pc = "write"
  /\ existingComment # Null
  /\ LET newContent == IF options.append
                       THEN appendContent(existingComment.existingContent, review)
                       ELSE replaceContent(review)
     IN  \E net \in NetOutcomes :
           LET served == servePatch(threads, azureConfig.prId,
                                    existingComment.threadId, PatchedCommentId,
                                    newContent)
               response == CASE net = "ok" -> served.response
                             [] net = "error" -> Response(500, [message |-> "error"])
                             [] net = "throw" -> Thrown
           IN  /\ threads' = IF net = "ok" THEN served.threads ELSE threads
               /\ http' = Append(http, Request("PATCH", azureConfig.prId,
                                               existingComment.threadId,
                                               PatchedCommentId, newContent, response))
               /\ sticky' = StickyAfter(sticky, azureConfig.prId,
                                        net = "ok" /\ is2xx(response), TRUE)
               /\ pc' = afterWrite(response)
  /\ UNCHANGED <<run, options, token, file, exitCode, locals, agent, tried, prompted, answer,
                 fatal, attempted, pure>>

\* createNewComment: with --new-comment, or when no existing comment was found
CreateNewComment ==
  /\ \/ pc = "post" /\ createsUnconditionally(options)
     \/ pc = "write" /\ existingComment = Null
  /\ LET content == replaceContent(review)
     IN  \E net \in NetOutcomes :
           LET served == servePost(threads, azureConfig.prId, content)
               response == CASE net = "ok" -> served.response
                             [] net = "error" -> Response(500, [message |-> "error"])
                             [] net = "throw" -> Thrown
           IN  /\ threads' = IF net = "ok" THEN served.threads ELSE threads
               /\ http' = Append(http, Request("POST", azureConfig.prId, 0, 0,
                                               content, response))
               /\ sticky' = StickyAfter(sticky, azureConfig.prId,
                                        /\ pc = "write"
                                        /\ net = "ok" /\ is2xx(response), TRUE)
               /\ pc' = afterWrite(response)
  /\ UNCHANGED <<run, options, token, file, exitCode, locals, agent, tried, prompted, answer,
                 fatal, attempted, pure>>

\* main: remove or keep claude-review.md, then return
Cleanup ==
  /\ pc = "cleanup"
  /\ file' = IF options.removeReviewFile /\ file.exists THEN NoFile ELSE file
  /\ Exit(0)
  /\ UNCHANGED <<world, locals, history, fatal, pure>>

\* the tool is run again
NextRun ==
  /\ pc = "done"
  /\ run < MaxRuns
  /\ run' = run + 1
  /\ pc' = "idle"
  /\ options' = DefaultOptions
  /\ token' = ""
  /\ exitCode' = NoExit
  /\ gitDiff' = Null
  /\ review' = <<>>
  /\ azureConfig' = Null
  /\ existingComment' = Null
  /\ agent' = NoAgent
  /\ tried' = <<>>
  /\ prompted' = FALSE
  /\ answer' = ""
  /\ http' = <<>>
  /\ fatal' = ""
  /\ attempted' = FALSE
  /\ UNCHANGED <<file, threads, sticky, pure>>

Next ==
  \/ Launch
  \/ CheckRepository
  \/ GetGitDiff
  \/ UseExistingReview
  \/ RunClaudeCode
  \/ ResolveFromEnvOnly
  \/ TryGitAndApi
  \/ TryAzureCli
  \/ FallBackToEnvVars
  \/ Confirm
  \/ FindExisting
  \/ UpdateExistingComment
  \/ CreateNewComment
  \/ Cleanup
  \/ NextRun

Spec == Init /\ [][Next]_vars

\* --------------------------------------------- bin/claude-review.js: main
\* The checked-in executable is an earlier CommonJS version of the tool. It
\* parses the same options, and its repository check, getGitDiff filter,
\* processClaudeOutput, getConfigFromEnvVars, getConfigFromAzureCli,
\* parseAzurePr and posting functions read like those above; its main and
\* getAzureDevOpsConfig differ and are given here.

\* options.noPost: program.opts() carries --no-post as post = false, so the
\* key is absent for every command line and reads as undefined
noPost(opts) == IF "noPost" \in DOMAIN opts THEN opts.noPost ELSE FALSE

\* if (!options.noPost)
BinAfterReview == IF ~noPost(options) THEN "resolve" ELSE "cleanup"

\* options.useExistingReview && fs.existsSync(reviewFile)
BinUseExistingReview ==
  /\ pc = "review"
  /\ options.useExistingReview /\ file.exists
  /\ fatal' = unusable(file)
  /\ LET out == processClaudeOutput(file)
     IN  IF out = Null
         THEN Exit(1) /\ UNCHANGED review
         ELSE review' = out.reviewContent /\ pc' = BinAfterReview /\ UNCHANGED exitCode
  /\ UNCHANGED <<world, file, gitDiff, azureConfig, existingComment, history, pure>>

\* createContextFile, runClaudeCode (execSync of the agent) and
\* processClaudeOutput
BinRunClaudeCode ==
  /\ pc = "review"
  /\ ~(options.useExistingReview /\ file.exists)
  /\ \/ \* prompt file not found
        /\ fatal' = "noPromptFile"
        /\ Exit(1)
        /\ UNCHANGED <<file, review, agent>>
     \/ \* execSync throws: the agent exits nonzero
        /\ fatal' = "agentFailed"
        /\ agent' = [spawned |-> TRUE, wrote |-> Null]
        /\ Exit(1)
        /\ UNCHANGED <<file, review>>
     \/ \* the agent exits 0, having written a document or nothing
        \E wrote \in {Null} \cup {[content |-> d] : d \in AgentDocs} :
          /\ agent' = [spawned |-> TRUE, wrote |-> wrote]
          /\ file' = IF wrote = Null THEN file ELSE FileWith(wrote.content)
          /\ fatal' = unusable(file')
          /\ LET out == processClaudeOutput(file')
             IN  IF out = Null
                 THEN Exit(1) /\ UNCHANGED review
                 ELSE /\ review' = out.reviewContent
                      /\ pc' = BinAfterReview
                      /\ UNCHANGED exitCode
  /\ UNCHANGED <<world, gitDiff, azureConfig, existingComment, tried, prompted, answer,
                 http, attempted, pure>>

\* getAzureDevOpsConfig without --use-env-vars: Azure CLI auto-detection is
\* the first strategy
BinTryAzureCli ==
  /\ pc = "resolve"
  /\ ~envVarsOnly(options)
  /\ \E r \in { getConfigFromAzureCli(cliOk, prs, showPr, options.azurePr, token) :
                   cliOk \in BOOLEAN,
                   prs \in {activeOnly(l) : l \in PrLists},
                   showPr \in PrsWithId(options.azurePr) \cup {Null} } :
           /\ tried' = Append(tried, Tried("azureCli", r.config, r.matched, r.shown,
                                           FALSE, ""))
           /\ azureConfig' = r.config
           /\ pc' = nextStrategy("azureCli", r.config)
  /\ attempted' = TRUE
  /\ UNCHANGED <<world, file, exitCode, gitDiff, review, existingComment, agent,
                 prompted, answer, http, fatal, pure>>

\* askYesNo resolves to whether the line typed starts with "y"
YesNoAnswers == {"true", "false"}

\* main: the warning when no PR is known, --post, or askYesNo
BinConfirm ==
  /\ pc = "confirm"
  /\ prompted' = asksUser(azureConfig, options.post)
  /\ answer' \in IF prompted' THEN YesNoAnswers ELSE {""}
  /\ pc' = IF azureConfig # Null /\ shouldPost(options.post, answer')
           THEN "post" ELSE "cleanup"
  /\ tried' = <<>>
  /\ UNCHANGED <<world, file, exitCode, locals, agent, http, fatal, attempted, pure>>

BinNext ==
  \/ Launch
  \/ CheckRepository
  \/ GetGitDiff
  \/ BinUseExistingReview
  \/ BinRunClaudeCode
  \/ ResolveFromEnvOnly
  \/ BinTryAzureCli
  \/ FallBackToEnvVars
  \/ BinConfirm
  \/ FindExisting
  \/ UpdateExistingComment
  \/ CreateNewComment
  \/ Cleanup
  \/ NextRun

BinSpec == Init /\ [][BinNext]_vars

\* ------------------------------------------- functions applied on their own
\* getConfigFromEnvVars, the filter of getGitDiff and parseAzureDevOpsRemote
\* are pure: PureSpec draws a call of one of them and applies it.
tool == <<run, pc, options, token, file, threads, sticky, exitCode, gitDiff,
          review, azureConfig, existingComment, agent, tried, prompted, answer,
          http, fatal, attempted>>

\* process.env and options.azurePr as getConfigFromEnvVars may find them
EnvCalls ==
  { [fn |-> "getConfigFromEnvVars", env |-> Env(tok, rest), azurePr |-> azurePr] :
      tok \in {"", "tok"}, rest \in EnvVarSets, azurePr \in {"", "42"} }

\* paths of changed files, as atoms: directories, then the file name
DiffPaths == { <<"package-lock.json">>, <<"web/", "yarn.lock">>,
               <<"src/", "x.ts">>, <<"docs/", "yarn.lock", ".md">> }

\* the lines `git diff` prints for one changed file
Segment(path) ==
  << <<DiffHeader, " ", "a/">> \o path \o <<" ", "b/">> \o path,
     <<"@@">>,
     <<"+">> \o path >>

RECURSIVE Segments(_)
Segments(paths) ==
  IF paths = <<>> THEN <<>> ELSE Segment(Head(paths)) \o Segments(Tail(paths))

\* fullDiff.split("\n") of a diff of these files: the empty string after
\* the final newline comes last
fullDiffLines(paths) == Segments(paths) \o << <<>> >>

PathLists == UNION { [1..n -> DiffPaths] : n \in 0..MaxSegments }

DiffCalls == { [fn |-> "getGitDiff", paths |-> ps] : ps \in PathLists }

Organizations == {"o", "convergentis"}
Projects == {"CIS%20Planning", "proj"}
Repositories == {"r", "PGW-TemplateBuilder-BTP"}

\* remotes of the HTTPS form, of the SSH form, and others
RemoteCalls ==
  { [fn |-> "parseAzureDevOpsRemote", form |-> "https", org |-> o, project |-> pj,
     repo |-> r, url |-> <<"https://dev.azure.com/", o, "/", pj, "/_git/", r>>] :
      o \in Organizations, pj \in Projects, r \in Repositories }
  \cup
  { [fn |-> "parseAzureDevOpsRemote", form |-> "ssh", org |-> o, project |-> pj,
     repo |-> r, url |-> <<o, "@vs-ssh.visualstudio.com:v3/", o, "/", pj, "/", r>>] :
      o \in Organizations, pj \in Projects \cup {"CIS Planning"}, r \in Repositories }
  \cup
  { [fn |-> "parseAzureDevOpsRemote", form |-> "other", org |-> "", project |-> "",
     repo |-> "", url |-> u] :
      u \in { GithubRemote, LegacyRemote, <<"invalid-url">>, <<>>,
               <<"https://dev.azure.com/", "o", "/", "proj">>,
               <<"https://dev.azure.com/", "o", "/", "proj", "/_git/">>,
               <<"git", "@ssh.dev.azure.com:v3/", "o", "/", "proj", "/", "r">>,
               <<"o", "@vs-ssh.visualstudio.com:v3/", "o", "/", "proj">> } }

\* branch names and titles of up to MaxChars characters
Chars == {"1", "2", "x"}
Strings == UNION { [1..n -> Chars] : n \in 0..MaxChars }

WorkItemCalls ==
  { [fn |-> "extractWorkItemId", branchName |-> s] : s \in Strings }
  \cup
  { [fn |-> "extractWorkItemFromPRTitle", title |-> t] :
      t \in {Null} \cup { [text |-> s] : s \in Strings } }

\* an active pull request of the branch feat-2, whose name starts like feat
PrFeatDash ==
  [Pr(<<19>>, "feat", "Active", LegacyPrUrl) EXCEPT
     !.sourceRefName = <<"refs/heads/", "feat", "-2">>]

\* what az repos pr list --status active may print: up to MaxPrs of these
CliPrLists ==
  UNION { [1..n -> {PrFeat, Pr(<<18>>, "feat", "Active", LegacyPrUrl),
                    PrOther, PrFeatDash}] : n \in 0..MaxPrs }

\* a run of getConfigFromAzureCli: the tools' answers, --azure-pr, the token
CliCalls ==
  { [fn |-> "getConfigFromAzureCli", cliOk |-> ok, prs |-> prs, showPr |-> showPr,
     azurePr |-> azurePr, token |-> tok] :
      ok \in BOOLEAN, prs \in CliPrLists, tok \in {"", "tok"},
      azurePr \in {"", "42"}, showPr \in {Null, PrOther, PrFeatDone} }

Calls ==
  EnvCalls \cup DiffCalls \cup RemoteCalls \cup WorkItemCalls \cup
  {c \in CliCalls : c.azurePr = "" => c.showPr = Null}

PureInit ==
  /\ run = 1
  /\ pc = "idle"
  /\ options = DefaultOptions
  /\ token = ""
  /\ file = NoFile
  /\ threads = [p \in ServerPrIds |-> <<>>]
  /\ sticky = [p \in ServerPrIds |-> "clean"]
  /\ exitCode = NoExit
  /\ gitDiff = Null
  /\ review = <<>>
  /\ azureConfig = Null
  /\ existingComment = Null
  /\ agent = NoAgent
  /\ tried = <<>>
  /\ prompted = FALSE
  /\ answer = ""
  /\ http = <<>>
  /\ fatal = ""
  /\ attempted = FALSE
  /\ call \in Calls
  /\ result = Pending
  /\ ado = Unused
  /\ posters = Unused

Returned(value) == [value |-> value]

ApplyGetConfigFromEnvVars ==
  /\ call.fn = "getConfigFromEnvVars"
  /\ result = Pending
  /\ result' = Returned(getConfigFromEnvVars(call.env, call.azurePr))
  /\ UNCHANGED <<tool, call, ado, posters>>

ApplyGetGitDiff ==
  /\ call.fn = "getGitDiff"
  /\ result = Pending
  /\ result' = Returned(getGitDiff(fullDiffLines(call.paths)))
  /\ UNCHANGED <<tool, call, ado, posters>>

ApplyParseAzureDevOpsRemote ==
  /\ call.fn = "parseAzureDevOpsRemote"
  /\ result = Pending
  /\ result' = Returned(parseAzureDevOpsRemote(call.url))
  /\ UNCHANGED <<tool, call, ado, posters>>

ApplyExtractWorkItemId ==
  /\ call.fn = "extractWorkItemId"
  /\ result = Pending
  /\ result' = Returned(extractWorkItemId(call.branchName))
  /\ UNCHANGED <<tool, call, ado, posters>>

ApplyExtractWorkItemFromPRTitle ==
  /\ call.fn = "extractWorkItemFromPRTitle"
  /\ result = Pending
  /\ result' = Returned(extractWorkItemFromPRTitle(call.title))
  /\ UNCHANGED <<tool, call, ado, posters>>

ApplyGetConfigFromAzureCli ==
  /\ call.fn = "getConfigFromAzureCli"
  /\ result = Pending
  /\ result' = Returned(getConfigFromAzureCli(call.cliOk, call.prs, call.showPr,
                                              call.azurePr, call.token))
  /\ UNCHANGED <<tool, call, ado, posters>>

PureNext ==
  \/ ApplyGetConfigFromAzureCli
  \/ ApplyExtractWorkItemId
  \/ ApplyExtractWorkItemFromPRTitle
  \/ ApplyGetConfigFromEnvVars
  \/ ApplyGetGitDiff
  \/ ApplyParseAzureDevOpsRemote

PureSpec == PureInit /\ [][PureNext]_vars

\* ------------------------------------------------- ado.ts: updateWorkItem
\* AdoSpec follows one call of updateWorkItem from await to await.  The
\* service holds work items and pull requests; every SDK call may reject.
WorkItemId == "1234"

\* pr.workItemRefs: Null when the field is undefined
WorkItemRefs == { Null, [list |-> <<>>], [list |-> <<"1234">>],
                  [list |-> <<"5678", "1234">>] }

PrFeatSecond == Pr(<<18>>, "feat", "Active", LegacyPrUrl)

AdoBaseLists == { <<>>, <<PrFeat>>, <<PrOther>>, <<PrFeatDone>>,
                  <<PrFeatDone, PrFeat>>, <<PrFeat, PrFeatSecond>>,
                  <<PrOther, PrFeatDone>> }

\* the pull requests of the repository with the work items they refer to
AdoPrLists ==
  UNION { { [i \in 1..Len(base) |-> base[i] @@ [workItemRefs |-> refs[i]]] :
              refs \in [1..Len(base) -> WorkItemRefs] } : base \in AdoBaseLists }

\* variant: no pull request counts as linked
isWorkItemLinked_never(pr, workItemId) == FALSE

\* pr.workItemRefs?.some((ref) => ref.id === workItemId) || false
isWorkItemLinked(pr, workItemId) ==
  /\ pr.workItemRefs # Null
  /\ \E i \in DOMAIN pr.workItemRefs.list : pr.workItemRefs.list[i] = workItemId

\* the values updateWorkItem resolves to; optional fields are <<>> when absent
doesNotExist ==
  [success |-> FALSE, message |-> "does not exist", pr |-> Null,
   workItemExists |-> <<FALSE>>]
noPullRequest ==
  [success |-> FALSE, message |-> "No active pull request found", pr |-> Null,
   workItemExists |-> <<TRUE>>]
alreadyLinked(pr) ==
  [success |-> TRUE, message |-> "is already linked", pr |-> pr,
   workItemExists |-> <<TRUE>>]
linkedOrWould(pr, dryRun) ==
  [success |-> TRUE,
   message |-> IF dryRun THEN "[DRY RUN] Would link" ELSE "Successfully linked",
   pr |-> pr, workItemExists |-> <<TRUE>>]
\* variant: the caught error is thrown again
failedToUpdate_rethrown == Thrown

failedToUpdate ==
  [success |-> FALSE, message |-> "Failed to update work item", pr |-> Null,
   workItemExists |-> <<>>]

\* the patch document of linkWorkItemToPR
patchDocument(pr) ==
  [op |-> "add", path |-> "/relations/-", rel |-> "ArtifactLink",
   url |-> <<"vstfs:///Git/PullRequestId/", pr.repository.name, pr.pullRequestId>>]

AdoInit ==
  /\ run = 1
  /\ pc = "idle"
  /\ options = DefaultOptions
  /\ token = ""
  /\ file = NoFile
  /\ threads = [p \in ServerPrIds |-> <<>>]
  /\ sticky = [p \in ServerPrIds |-> "clean"]
  /\ exitCode = NoExit
  /\ gitDiff = Null
  /\ review = <<>>
  /\ azureConfig = Null
  /\ existingComment = Null
  /\ agent = NoAgent
  /\ tried = <<>>
  /\ prompted = FALSE
  /\ answer = ""
  /\ http = <<>>
  /\ fatal = ""
  /\ attempted = FALSE
  /\ call = NoCall
  /\ result = Pending
  /\ posters = Unused
  /\ \E prs \in AdoPrLists, items \in SUBSET {WorkItemId}, dryRun \in BOOLEAN :
       ado = [branchName |-> CurrentBranch, workItemId |-> WorkItemId,
              dryRun |-> dryRun, prs |-> prs, workItems |-> items,
              relations |-> <<>>, at |-> "workItemExists", pr |-> Pending,
              log |-> <<>>, returned |-> Pending]

AdoReturn(value, entry) ==
  ado' = [ado EXCEPT !.at = "done", !.returned = value, !.log = Append(@, entry)]

\* workItemExists: any rejection of getWorkItem reads as "does not exist"
AdoWorkItemExists ==
  /\ ado # Unused /\ ado.at = "workItemExists"
  /\ \E rejected \in {ado.workItemId \notin ado.workItems, TRUE} :
       LET entry == [api |-> "getWorkItem", id |-> ado.workItemId,
                     response |-> IF rejected THEN Thrown ELSE [id |-> ado.workItemId]]
       IN  IF rejected
           THEN AdoReturn(doesNotExist, entry)
           ELSE ado' = [ado EXCEPT !.at = "active", !.log = Append(@, entry)]
  /\ UNCHANGED <<tool, call, result, posters>>

\* lines 264-307 of updateWorkItem once findPullRequest has returned pr
AdoFound(pr, entry) ==
  IF pr = Null
  THEN ado' = [ado EXCEPT !.at = "done", !.pr = Null, !.returned = noPullRequest,
                          !.log = Append(@, entry)]
  ELSE IF isWorkItemLinked(pr, ado.workItemId)
  THEN ado' = [ado EXCEPT !.at = "done", !.pr = pr, !.returned = alreadyLinked(pr),
                          !.log = Append(@, entry)]
  ELSE IF ado.dryRun
  THEN ado' = [ado EXCEPT !.at = "done", !.pr = pr,
                          !.returned = linkedOrWould(pr, TRUE),
                          !.log = Append(@, entry)]
  ELSE ado' = [ado EXCEPT !.at = "link", !.pr = pr, !.log = Append(@, entry)]

\* findPullRequest: the query with the Active status filter
AdoQueryActive ==
  /\ ado # Unused /\ ado.at = "active"
  /\ LET sourceRefName == <<"refs/heads/", ado.branchName>>
         query == [api |-> "getPullRequests", sourceRefName |-> sourceRefName,
                   status |-> "Active"]
         pullRequests == getPullRequests(ado.prs, sourceRefName, "Active")
     IN  \/ AdoReturn(failedToUpdate, query @@ [response |-> Thrown])
         \/ IF Len(pullRequests) = 0
            THEN ado' = [ado EXCEPT !.at = "all",
                           !.log = Append(@, query @@ [response |-> [list |-> <<>>]])]
            ELSE AdoFound(pullRequests[1],
                          query @@ [response |-> [list |-> pullRequests]])
  /\ UNCHANGED <<tool, call, result, posters>>

\* findPullRequest: the query without status filter, then the choice
AdoQueryAll ==
  /\ ado # Unused /\ ado.at = "all"
  /\ LET sourceRefName == <<"refs/heads/", ado.branchName>>
         query == [api |-> "getPullRequests", sourceRefName |-> sourceRefName,
                   status |-> ""]
         pullRequests == getPullRequests(ado.prs, sourceRefName, "")
     IN  \/ AdoReturn(failedToUpdate, query @@ [response |-> Thrown])
         \/ AdoFound(IF Len(pullRequests) = 0 THEN Null ELSE pullRequests[1],
                     query @@ [response |-> [list |-> pullRequests]])
  /\ UNCHANGED <<tool, call, result, posters>>

\* linkWorkItemToPR: witApi.updateWorkItem with the patch document
AdoLink ==
  /\ ado # Unused /\ ado.at = "link"
  /\ \E rejected \in BOOLEAN :
       LET entry == [api |-> "updateWorkItem", id |-> ado.workItemId,
                     document |-> patchDocument(ado.pr),
                     response |-> IF rejected THEN Thrown ELSE [id |-> ado.workItemId]]
       IN  IF rejected
           THEN AdoReturn(failedToUpdate, entry)
           ELSE ado' = [ado EXCEPT !.at = "done",
                          !.returned = linkedOrWould(ado.pr, FALSE),
                          !.relations = Append(@, patchDocument(ado.pr)),
                          !.log = Append(@, entry)]
  /\ UNCHANGED <<tool, call, result, posters>>

AdoNext ==
  \/ AdoWorkItemExists
  \/ AdoQueryActive
  \/ AdoQueryAll
  \/ AdoLink

AdoSpec == AdoInit /\ [][AdoNext]_vars

\* --------------------------------- postToAzureDevOps, two calls at a time
\* RaceSpec follows two runs of the tool that have both resolved pull request
\* 17 and call postToAzureDevOps in replace mode at the same time: each await
\* of a call is a step, and the steps of the two calls interleave freely.
Posters == {1, 2}
RacePrId == "17"

\* thread lists without a marked thread
UnmarkedThreads ==
  { <<>>,
    <<Thread(1, <<>>),
      Thread(2, <<Comment(1, <<"LGTM">>), Comment(2, <<Marker, NL2, "quoted">>)>>)>> }

RaceInit ==
  /\ run = 1
  /\ pc = "idle"
  /\ options = DefaultOptions
  /\ token = ""
  /\ file = NoFile
  /\ \E ts \in UnmarkedThreads : threads = [p \in ServerPrIds |-> ts]
  /\ sticky = [p \in ServerPrIds |-> "clean"]
  /\ exitCode = NoExit
  /\ gitDiff = Null
  /\ review = <<>>
  /\ azureConfig = Null
  /\ existingComment = Null
  /\ agent = NoAgent
  /\ tried = <<>>
  /\ prompted = FALSE
  /\ answer = ""
  /\ http = <<>>
  /\ fatal = ""
  /\ attempted = FALSE
  /\ call = NoCall
  /\ result = Pending
  /\ ado = Unused
  /\ \E reviews \in [Posters -> {<<"review A">>, <<"review B">>}] :
       posters = [p \in Posters |->
                    [pc |-> "post", reviewContent |-> reviews[p],
                     existingComment |-> Null, http |-> <<>>]]

raceFrame == <<run, pc, options, token, file, sticky, exitCode, gitDiff, review,
               azureConfig, existingComment, agent, tried, prompted, answer, http,
               fatal, attempted, call, result, ado>>

\* findExistingClaudeComment of poster p
RaceFindExisting(p) ==
  /\ posters # Unused /\ posters[p].pc = "post"
  /\ \E net \in NetOutcomes \cup {"garbled"} :
       LET response == CASE net = "ok" -> serveList(threads, RacePrId)
                         [] net = "garbled" -> Response(200, Null)
                         [] net = "error" -> Response(500, [message |-> "error"])
                         [] net = "throw" -> Thrown
           found == findExistingClaudeComment(response)
       IN  posters' = [posters EXCEPT
             ![p].existingComment = IF found = Thrown THEN Null ELSE found,
             ![p].pc = IF found = Thrown THEN "done" ELSE "write",
             ![p].http = Append(@, Request("GET", RacePrId, 0, 0, <<>>, response))]
  /\ UNCHANGED <<raceFrame, threads>>

\* updateExistingComment of poster p, with the replaced content
RaceUpdateExistingComment(p) ==
  /\ posters # Unused /\ posters[p].pc = "write"
  /\ posters[p].existingComment # Null
  /\ LET newContent == replaceContent(posters[p].reviewContent)
         threadId == posters[p].existingComment.threadId
     IN  \E net \in NetOutcomes :
           LET served == servePatch(threads, RacePrId, threadId, PatchedCommentId,
                                    newContent)
               response == CASE net = "ok" -> served.response
                             [] net = "error" -> Response(500, [message |-> "error"])
                             [] net = "throw" -> Thrown
           IN  /\ threads' = IF net = "ok" THEN served.threads ELSE threads
               /\ posters' = [posters EXCEPT
                     ![p].pc = "done",
                     ![p].http = Append(@, Request("PATCH", RacePrId, threadId,
                                                   PatchedCommentId, newContent,
                                                   response))]
  /\ UNCHANGED raceFrame

\* createNewComment of poster p, when its listing showed no marked thread
RaceCreateNewComment(p) ==
  /\ posters # Unused /\ posters[p].pc = "write"
  /\ posters[p].existingComment = Null
  /\ LET content == replaceContent(posters[p].reviewContent)
     IN  \E net \in NetOutcomes :
           LET served == servePost(threads, RacePrId, content)
               response == CASE net = "ok" -> served.response
                             [] net = "error" -> Response(500, [message |-> "error"])
                             [] net = "throw" -> Thrown
           IN  /\ threads' = IF net = "ok" THEN served.threads ELSE threads
               /\ posters' = [posters EXCEPT
                     ![p].pc = "done",
                     ![p].http = Append(@, Request("POST", RacePrId, 0, 0, content,
                                                   response))]
  /\ UNCHANGED raceFrame

RaceNext ==
  \/ \E p \in Posters : RaceFindExisting(p)
  \/ \E p \in Posters : RaceUpdateExistingComment(p)
  \/ \E p \in Posters : RaceCreateNewComment(p)

RaceSpec == RaceInit /\ [][RaceNext]_vars

\* ================================================================ properties
\* a thread whose first comment carries the marker heading
HasMarker(thread) ==
  /\ Len(thread.comments) > 0
  /\ \E i \in DOMAIN thread.comments[1].content :
       thread.comments[1].content[i] = "# Claude Code Review"

Marked(ts) == {i \in DOMAIN ts : HasMarker(ts[i])}

Answered2xx(request) ==
  /\ request.response # Thrown
  /\ request.response.statusCode \in 200..299

\* the request was a listing answered 2xx with a parseable body
Listed(request) ==
  /\ request.method = "GET"
  /\ Answered2xx(request)
  /\ request.response.body # Null

\* postToAzureDevOps was called and has returned
Posted == pc \in {"cleanup", "done"} /\ http # <<>>

ReplaceMode == ~options.newComment /\ ~options.append

\* C1: in replace mode postToAzureDevOps issues one GET and then one write;
\* the write is a PATCH when the listing has a thread whose first comment
\* carries the marker, and a POST when the listing has none.
C1_ReplaceOnePatchOrOnePost ==
  (Posted /\ ReplaceMode) =>
    /\ Len(http) = 2
    /\ http[1].method = "GET"
    /\ http[2].method \in {"PATCH", "POST"}
    /\ Listed(http[1]) =>
         http[2].method = IF Marked(http[1].response.body.value) # {}
                          THEN "PATCH" ELSE "POST"

C1_Witness ==
  /\ pc = "done" /\ ReplaceMode /\ Len(http) = 2
  /\ Listed(http[1]) /\ Marked(http[1].response.body.value) # {}
  /\ http[2].method = "PATCH" /\ Answered2xx(http[2])

\* C2: a pull request that had no marked thread, and to which only runs in
\* replace or append mode have posted with every request answered 2xx, has
\* exactly one marked thread; the first such run appends it as a new thread
\* and every later run leaves the set of threads and the marked one in place.
C2_StickyUniqueness ==
  /\ [](\A p \in ServerPrIds :
          /\ sticky[p] = "clean" => Marked(threads[p]) = {}
          /\ sticky[p] = "kept" => Cardinality(Marked(threads[p])) = 1)
  /\ [][\A p \in ServerPrIds :
          (sticky'[p] = "kept" /\ threads'[p] # threads[p]) =>
            IF sticky[p] = "clean"
            THEN /\ Len(threads'[p]) = Len(threads[p]) + 1
                 /\ Marked(threads'[p]) = {Len(threads'[p])}
            ELSE /\ Len(threads'[p]) = Len(threads[p])
                 /\ Marked(threads'[p]) = Marked(threads[p])
                 /\ \A i \in DOMAIN threads[p] :
                      i \notin Marked(threads[p]) => threads'[p][i] = threads[p][i]]_vars

C2_Witness ==
  /\ run = 2 /\ pc = "done" /\ sticky["17"] = "kept"
  /\ Len(http) = 2 /\ http[2].method = "PATCH" /\ Answered2xx(http[2])
  /\ Cardinality(Marked(threads["17"])) = 1

\* getAzureDevOpsConfig has returned and main has not yet taken the result
Resolved == pc = "confirm"

StrategyOrder == <<"gitApi", "azureCli", "envVars">>

\* C3: with --azure-pr, a config that resolution returns carries the given
\* id verbatim, and no strategy ran a branch-matching search.
C3_ExplicitPrIdVerbatim ==
  (Resolved /\ options.azurePr # "" /\ azureConfig # Null) =>
    /\ azureConfig.prId = options.azurePr
    /\ \A i \in DOMAIN tried : ~tried[i].searched

\* C4: without --use-env-vars the strategies run in the order git+API, Azure
\* CLI, environment variables; a strategy starts only after all before it
\* yielded null, and the config returned is that of the last one run, which
\* is the first to yield a config.
C4_StrategyOrder ==
  ~options.useEnvVars =>
    /\ Len(tried) <= 3
    /\ \A i \in DOMAIN tried :
         /\ tried[i].strategy = StrategyOrder[i]
         /\ i < Len(tried) => tried[i].config = Null
    /\ pc = "azureCli" => Len(tried) = 1
    /\ pc = "envVars" => Len(tried) = 2
    /\ Resolved =>
         /\ tried # <<>>
         /\ azureConfig = tried[Len(tried)].config
         /\ Len(tried) < 3 => azureConfig # Null

C4_Witness ==
  /\ Resolved /\ ~options.useEnvVars
  /\ Len(tried) = 2 /\ tried[2].strategy = "azureCli"
  /\ azureConfig # Null /\ azureConfig = tried[2].config

\* C5: when git+API fails for lack of the token, outside a work tree, on an
\* unparseable remote or on a throwing PR search, it returns null without
\* throwing, the run does not exit, the Azure CLI strategy is attempted next
\* and, when that yields null too, the environment-variable strategy.
C5_GitApiFailureFallsThrough ==
  (/\ tried # <<>>
   /\ tried[1].strategy = "gitApi"
   /\ tried[1].why \in {"noToken", "notRepo", "badRemote", "searchThrew"}) =>
    /\ ~tried[1].threw
    /\ tried[1].config = Null
    /\ pc \in {"azureCli", "envVars", "confirm"} /\ exitCode = NoExit
    /\ pc # "azureCli" => (Len(tried) >= 2 /\ tried[2].strategy = "azureCli")
    /\ (pc = "confirm" /\ tried[2].config = Null) =>
         (Len(tried) = 3 /\ tried[3].strategy = "envVars")

C5_Witness ==
  /\ Resolved /\ Len(tried) = 3
  /\ tried[1].strategy = "gitApi" /\ tried[1].why = "badRemote"
  /\ tried[2].strategy = "azureCli" /\ tried[3].strategy = "envVars"
  /\ azureConfig # Null

\* the first comment of the first marked thread of a listing
FirstMarkedContent(ts) ==
  LET i == CHOOSE k \in Marked(ts) : \A j \in Marked(ts) : k <= j
  IN  ts[i].comments[1].content

AppendMode == options.append /\ ~options.newComment

\* C6: in append mode the PATCH body is the listed content of the existing
\* comment, then the separator, the "Updated Review" heading and the new
\* review; and a step of an append-mode run leaves every comment on the
\* service with its old content as a prefix of its new content.
C6_AppendKeepsOldContent ==
  /\ []((Posted /\ AppendMode /\ Len(http) = 2 /\ http[2].method = "PATCH") =>
          /\ Listed(http[1])
          /\ Marked(http[1].response.body.value) # {}
          /\ LET old == FirstMarkedContent(http[1].response.body.value)
             IN  /\ http[2].content =
                      old \o <<"\n\n", "---", "\n\n", "**Updated Review:**", "\n\n">>
                          \o review
                 /\ IsPrefix(old, http[2].content))
  /\ [][AppendMode =>
          \A p \in ServerPrIds : \A i \in DOMAIN threads[p] :
            /\ i \in DOMAIN threads'[p]
            /\ \A k \in DOMAIN threads[p][i].comments :
                 /\ k \in DOMAIN threads'[p][i].comments
                 /\ IsPrefix(threads[p][i].comments[k].content,
                             threads'[p][i].comments[k].content)]_vars

C6_Witness ==
  /\ run = 2 /\ pc = "done" /\ AppendMode
  /\ Len(http) = 2 /\ http[2].method = "PATCH" /\ Answered2xx(http[2])
  /\ \E i \in DOMAIN threads["17"] :
       /\ threads["17"][i].comments[1].content = http[2].content
       /\ Len(http[2].content) > Len(review) + 5
       /\ \E k \in DOMAIN http[2].content : http[2].content[k] = "**Updated Review:**"

\* C7: with --new-comment a call of postToAzureDevOps issues one POST and
\* nothing else, whatever threads exist and whether or not --append is set.
C7_NewCommentAlwaysPosts ==
  /\ [](options.newComment =>
          /\ Len(http) <= 1
          /\ \A i \in DOMAIN http : http[i].method = "POST")
  /\ [][(pc = "post" /\ options.newComment) =>
          /\ pc' = "cleanup"
          /\ Len(http') = 1
          /\ http'[1].method = "POST"]_vars

C7_Witness ==
  /\ pc = "done" /\ options.newComment /\ options.append
  /\ Len(http) = 1 /\ http[1].method = "POST" /\ Answered2xx(http[1])
  /\ Cardinality(Marked(threads["17"])) >= 2

\* C8: in replace or append mode, when the listing request throws, is not
\* answered 2xx or has an unparseable body, postToAzureDevOps goes on to
\* issue exactly one POST and no PATCH.
C8_SearchFailureCreates ==
  (Posted /\ ~options.newComment /\ ~Listed(http[1])) =>
    /\ Len(http) = 2
    /\ http[1].method = "GET"
    /\ http[2].method = "POST"

C8_Witness ==
  /\ pc = "done" /\ ~options.newComment /\ Len(http) = 2
  /\ http[1].method = "GET" /\ http[1].response = Thrown
  /\ http[2].method = "POST" /\ Answered2xx(http[2])
  /\ Cardinality(Marked(threads["17"])) >= 2

\* C9: a run whose agent wrote no document, or a blank one, exits 1 and
\* posts nothing; the review of a run that spawned the agent is the document
\* that agent wrote.
C9_NoDocumentIsFatal ==
  agent.spawned =>
    /\ (pc = "done" /\ (agent.wrote = Null \/ trim(agent.wrote.content) = <<>>)) =>
         (exitCode = 1 /\ http = <<>>)
    /\ review # <<>> => (agent.wrote # Null /\ review = agent.wrote.content)

\* C10: when the sanitized diff is blank the run has exited with code 0
\* without spawning the agent, running a resolution strategy, prompting or
\* issuing a request, whatever the options and the review file.
C10_NoChangesExitsCleanly ==
  (gitDiff # Null /\ \A i \in DOMAIN gitDiff.text : gitDiff.text[i] \in {" ", "\n", "\n\n"}) =>
    /\ pc = "done" /\ exitCode = 0
    /\ ~agent.spawned
    /\ tried = <<>> /\ azureConfig = Null /\ ~prompted
    /\ http = <<>>
    /\ review = <<>>

C10_Witness ==
  /\ gitDiff # Null /\ gitDiff.text = <<>>
  /\ pc = "done" /\ exitCode = 0
  /\ options.post = "true" /\ options.useExistingReview /\ file.exists

FatalConditions == {"notGitRepo", "noBranch", "noPromptFile", "agentFailed", "emptyReview"}

\* C11: a run that meets a fatal condition (not a git repository, compare
\* branch not found, prompt file missing, agent exiting nonzero, blank review
\* file) has exited with code 1 without calling getAzureDevOpsConfig, running
\* a strategy, prompting or issuing a request.
C11_FatalExitsOne ==
  fatal \in FatalConditions =>
    /\ pc = "done" /\ exitCode = 1
    /\ ~attempted /\ tried = <<>> /\ azureConfig = Null
    /\ ~prompted
    /\ http = <<>>

C11_Witness ==
  /\ fatal = "emptyReview" /\ pc = "done" /\ exitCode = 1
  /\ options.post = "true" /\ agent.spawned /\ file.exists

IsWrite(request) == request.method \in {"POST", "PATCH"}

Writes == {i \in DOMAIN http : IsWrite(http[i])}

\* C12: when the create or update request is answered non-2xx or throws,
\* the run goes on to the cleanup step and exits 0 (removing the review file
\* when asked to), and the failed write is the only write of the run.
C12_PostingFailureNotFatal ==
  /\ Cardinality(Writes) <= 1
  /\ \A i \in Writes :
       /\ i = Len(http)
       /\ ~Answered2xx(http[i]) =>
            /\ pc \in {"cleanup", "done"}
            /\ exitCode = IF pc = "done" THEN 0 ELSE NoExit
            /\ (pc = "done" /\ options.removeReviewFile) => ~file.exists

C12_Witness ==
  /\ pc = "done" /\ exitCode = 0 /\ Len(http) = 2
  /\ http[2].method = "PATCH" /\ http[2].response # Thrown
  /\ http[2].response.statusCode = 500

\* getAzureDevOpsConfig has returned null to main
NoDestination == attempted /\ azureConfig = Null /\ pc \in {"cleanup", "done"}

\* C13: when every strategy run yields null the config returned is null;
\* main then shows no prompt, issues no request and ends with exit code 0,
\* with --post as well.
C13_NoDestinationNotFatal ==
  /\ (Resolved /\ \A i \in DOMAIN tried : tried[i].config = Null) =>
       azureConfig = Null
  /\ (pc = "confirm" /\ azureConfig = Null) =>
       /\ exitCode = NoExit
       /\ Len(tried) = IF options.useEnvVars THEN 1 ELSE 3
  /\ NoDestination =>
       /\ ~prompted /\ answer = ""
       /\ http = <<>>
       /\ exitCode = IF pc = "done" THEN 0 ELSE NoExit

C13_Witness ==
  /\ NoDestination /\ pc = "done" /\ exitCode = 0
  /\ options.post = "true" /\ ~options.useEnvVars

\* the user said yes to the confirmation prompt of this run
Consented == prompted /\ answer = "true"

\* C14: a run has issued a POST or PATCH only if --post was given or the
\* user answered the prompt with yes; after a declined or cancelled prompt
\* the run issues no request at all.
C14_NoWriteWithoutConsent ==
  /\ Writes # {} => (options.post = "true" \/ Consented)
  /\ pc \in {"post", "write"} => (options.post = "true" \/ Consented)
  /\ (prompted /\ answer \in {"false", "undefined"}) =>
       (http = <<>> /\ pc \in {"cleanup", "done"})

C14_Witness ==
  /\ prompted /\ answer = "undefined" /\ pc = "done" /\ exitCode = 0
  /\ azureConfig # Null /\ azureConfig.prId = "17" /\ http = <<>>

\* C15: with --no-post a run calls no resolution strategy, shows no prompt
\* and issues no request; the review is echoed and the run exits 0 with the
\* review file kept unless its removal was asked for.
C15_NoPostSkipsPosting ==
  options.post = "false" =>
    /\ ~attempted /\ tried = <<>> /\ azureConfig = Null
    /\ ~prompted /\ answer = ""
    /\ http = <<>>
    /\ pc \notin {"resolve", "azureCli", "envVars", "confirm", "post", "write"}
    /\ (pc = "done" /\ review # <<>>) =>
         /\ exitCode = 0
         /\ ~options.removeReviewFile => (file.exists /\ file.content = review)

\* C16: with --use-env-vars getAzureDevOpsConfig runs the environment
\* variable strategy once and nothing else (no git command, API search or
\* Azure CLI command), and returns that strategy's result, null included.
C16_EnvVarsOnly ==
  options.useEnvVars =>
    /\ pc \notin {"azureCli", "envVars"}
    /\ Len(tried) <= 1
    /\ \A i \in DOMAIN tried :
         /\ tried[i].strategy = "envVars"
         /\ ~tried[i].searched /\ ~tried[i].shown /\ ~tried[i].threw
    /\ Resolved => (Len(tried) = 1 /\ azureConfig = tried[1].config)
    /\ azureConfig # Null =>
         /\ azureConfig.token = token /\ token # ""
         /\ azureConfig.prId \in {options.azurePr, "17"}

C16_Witness ==
  /\ Resolved /\ options.useEnvVars /\ token = "tok"
  /\ Len(tried) = 1 /\ tried[1].strategy = "envVars"
  /\ azureConfig = Null

\* C17: getConfigFromEnvVars returns a config exactly when the token, the
\* organization, the project and the repository are set and a PR id comes
\* from --azure-pr or AZURE_DEVOPS_PR_ID; the config carries those values, and
\* its prId is the --azure-pr value whenever that option is given.
C17_EnvVarsAllOrNothing ==
  (call.fn = "getConfigFromEnvVars" /\ result # Pending) =>
    LET e == call.env
        complete == /\ e.AZURE_DEVOPS_TOKEN # "" /\ e.AZURE_DEVOPS_ORG # ""
                    /\ e.AZURE_DEVOPS_PROJECT # "" /\ e.AZURE_DEVOPS_REPO # ""
                    /\ (call.azurePr # "" \/ e.AZURE_DEVOPS_PR_ID # "")
    IN  /\ (result.value # Null) <=> complete
        /\ complete =>
             /\ result.value.token = e.AZURE_DEVOPS_TOKEN
             /\ result.value.org = e.AZURE_DEVOPS_ORG
             /\ result.value.project = e.AZURE_DEVOPS_PROJECT
             /\ result.value.repo = e.AZURE_DEVOPS_REPO
             /\ call.azurePr # "" => result.value.prId = call.azurePr
             /\ call.azurePr = "" => result.value.prId = e.AZURE_DEVOPS_PR_ID

C17_Witness ==
  /\ call.fn = "getConfigFromEnvVars" /\ result # Pending
  /\ call.azurePr = "42" /\ call.env.AZURE_DEVOPS_PR_ID = "17"
  /\ result.value # Null /\ result.value.prId = "42"

\* the thread search has run on a listing answered 2xx with a parseable body
Searched ==
  /\ pc \in {"write", "cleanup", "done"}
  /\ http # <<>> /\ Listed(http[1])

\* C18: the comment found is the first comment of the first listed thread
\* whose first comment contains the marker; a thread that has no comment, or
\* the marker only in a later comment, is never the one found.
C18_FirstMarkedThreadWins ==
  Searched =>
    LET ts == http[1].response.body.value
    IN  IF Marked(ts) = {}
        THEN existingComment = Null
        ELSE /\ existingComment # Null
             /\ \E i \in Marked(ts) :
                  /\ \A j \in Marked(ts) : i <= j
                  /\ existingComment.threadId = ts[i].id
                  /\ existingComment.commentId = ts[i].comments[1].id
                  /\ existingComment.existingContent = ts[i].comments[1].content

C18_Witness ==
  /\ Searched /\ pc = "write"
  /\ Cardinality(Marked(http[1].response.body.value)) >= 2
  /\ 1 \notin Marked(http[1].response.body.value)
  /\ existingComment # Null /\ existingComment.threadId = 2

LockfileNames == {"package-lock.json", "yarn.lock", "pnpm-lock.yaml", "bun.lockb",
                  "Cargo.lock", "Gemfile.lock", "composer.lock", "Pipfile.lock",
                  "poetry.lock"}

Directories == {"src/", "docs/", "web/"}

\* the file of this path is a lockfile
IsLockfile(path) ==
  /\ path[Len(path)] \in LockfileNames
  /\ \A i \in 1..(Len(path) - 1) : path[i] \in Directories

\* the lines of the segments of the other files, in order; the text after
\* the final newline goes with the last segment
RECURSIVE KeptLines(_)
KeptLines(paths) ==
  IF paths = <<>> THEN <<>>
  ELSE (IF IsLockfile(Head(paths)) THEN <<>>
        ELSE << <<"diff --git", " ", "a/">> \o Head(paths) \o <<" ", "b/">> \o Head(paths),
                <<"@@">>,
                <<"+">> \o Head(paths) >>)
       \o KeptLines(Tail(paths))

RECURSIVE Joined(_)
Joined(lines) ==
  IF lines = <<>> THEN <<>>
  ELSE IF Len(lines) = 1 THEN lines[1]
  ELSE lines[1] \o <<"\n">> \o Joined(Tail(lines))

\* C19: the sanitized diff is made of the lines of every segment that is
\* not a lockfile's, in the original order, and of no line of a lockfile's
\* segment.
C19_SanitizerDropsLockfilesOnly ==
  (call.fn = "getGitDiff" /\ result # Pending) =>
    LET last == IF call.paths = <<>> \/ ~IsLockfile(call.paths[Len(call.paths)])
                THEN << <<>> >> ELSE <<>>
    IN  result.value = Joined(KeptLines(call.paths) \o last)

\* percent-decoding of the project names in use
Decoded(project) == IF project = "CIS%20Planning" THEN "CIS Planning" ELSE project

Subject ==
  IF call.fn = "extractWorkItemId" THEN [text |-> call.branchName] ELSE call.title

\* how many characters from the start of s are digits
DigitRun(s) ==
  CHOOSE k \in 0..Len(s) :
    /\ \A i \in 1..k : s[i] \in Digits
    /\ k < Len(s) => s[k + 1] \notin Digits

AdoCalls(api) == {i \in DOMAIN ado.log : ado.log[i].api = api}

\* the work item is among those the pull request refers to
RefersTo(pr, workItemId) ==
  IF pr.workItemRefs = Null THEN FALSE
  ELSE workItemId \in {pr.workItemRefs.list[i] : i \in DOMAIN pr.workItemRefs.list}

AdoReturned == ado # Unused /\ ado.returned # Pending

\* C22: updateWorkItem issues the link mutation at most once, and only when
\* the work item exists, a pull request of the branch was found that does
\* not refer to the work item yet, and dryRun is false; it reports success
\* without a mutation in dry-run mode and when already linked.
C22_LinkAtMostOnceWhenNeeded ==
  ado # Unused =>
    /\ Cardinality(AdoCalls("updateWorkItem")) <= 1
    /\ Len(ado.relations) <= Cardinality(AdoCalls("updateWorkItem"))
    /\ \A i \in AdoCalls("updateWorkItem") :
         /\ ado.workItemId \in ado.workItems
         /\ ado.pr \notin {Pending, Null}
         /\ ado.pr.sourceRefName = <<"refs/heads/", ado.branchName>>
         /\ ~RefersTo(ado.pr, ado.workItemId)
         /\ ~ado.dryRun
         /\ ado.log[i].document.op = "add"
         /\ ado.log[i].document.rel = "ArtifactLink"
    /\ (/\ ado.returned # Pending
        /\ ado.pr \notin {Pending, Null}
        /\ ado.dryRun \/ RefersTo(ado.pr, ado.workItemId)
        /\ \A i \in DOMAIN ado.log : ado.log[i].response # Thrown) =>
         /\ ado.returned.success
         /\ AdoCalls("updateWorkItem") = {}
         /\ ado.relations = <<>>

\* a call that found an unlinked pull request and linked the work item
C22_Witness ==
  /\ AdoReturned /\ ado.returned.success
  /\ ~ado.dryRun /\ Len(ado.relations) = 1
  /\ ado.prs[1].workItemRefs = [list |-> <<>>]

\* ---------------------------------------------------------------- C23
\* C23: updateWorkItem checks in a fixed order and reports the first failing
\* check as a value: a missing work item gives success false with
\* workItemExists false and no PR lookup; an existing one without a pull
\* request gives success false with workItemExists true; a rejected PR
\* search or link call gives success false with "Failed to update work item".
C23_FirstFailureAsValue ==
  ado # Unused =>
    /\ ado.at = "done" => ado.returned \notin {Pending, Thrown}
    /\ ado.log # <<>> => ado.log[1].api = "getWorkItem"
    /\ \A i \in AdoCalls("getPullRequests"), j \in AdoCalls("updateWorkItem") : i < j
    /\ (ado.returned # Pending /\ ado.workItemId \notin ado.workItems) =>
         /\ ado.returned # Thrown
         /\ ~ado.returned.success
         /\ ado.returned.workItemExists = <<FALSE>>
         /\ AdoCalls("getPullRequests") = {}
    /\ (/\ ado.returned # Pending
        /\ \A i \in DOMAIN ado.log : ado.log[i].response # Thrown
        /\ \A k \in DOMAIN ado.prs :
             ado.prs[k].sourceRefName # <<"refs/heads/", ado.branchName>>) =>
         /\ ado.returned # Thrown
         /\ ~ado.returned.success
         /\ ado.returned.workItemExists = <<TRUE>>
    /\ (/\ ado.returned # Pending
        /\ \E i \in AdoCalls("getPullRequests") \cup AdoCalls("updateWorkItem") :
             ado.log[i].response = Thrown) =>
         /\ ado.returned # Thrown
         /\ ~ado.returned.success
         /\ ado.returned.message = "Failed to update work item"

\* the link call of an existing, unlinked work item was rejected
C23_Witness ==
  /\ AdoReturned
  /\ \E i \in AdoCalls("updateWorkItem") : ado.log[i].response = Thrown
  /\ ado.returned.message = "Failed to update work item"

\* ---------------------------------------------------------------- C24
\* the getPullRequests calls of findPullRequest, in order
AdoQueries == SelectSeq(ado.log, LAMBDA e : e.api = "getPullRequests")

OfBranch(pr) == pr.sourceRefName = <<"refs/heads/", ado.branchName>>
ActiveOfBranch(pr) == OfBranch(pr) /\ pr.status = "Active"

OnCurrentBranch(prs) ==
  {i \in DOMAIN prs : prs[i].sourceRefName = <<"refs/heads/", CurrentBranch>>}

\* the config that stands for pull request pr: Null without a token
ConfigOf(pr, tok) ==
  IF tok = "" THEN Null
  ELSE AzureConfig(tok, "o", "CIS Planning", "r", ToString(pr.pullRequestId[1]))

C26_ConfigComplete ==
  (Resolved /\ azureConfig # Null) =>
    /\ azureConfig.token # ""
    /\ azureConfig.org # ""
    /\ azureConfig.project # ""
    /\ azureConfig.repo # ""
    /\ azureConfig.prId # ""

\* ---------------------------------------------------------------- C27
\* C27: the PATCH of an existing review comment addresses the thread and the
\* comment that findExistingClaudeComment found, and the step that sends it
\* writes no other comment and no other thread of the pull request.
C27_PatchAddressesFoundComment ==
  /\ [](\A i \in DOMAIN http :
          http[i].method = "PATCH" =>
            /\ existingComment # Null
            /\ http[i].threadId = existingComment.threadId
            /\ http[i].commentId = existingComment.commentId)
  /\ [][(Len(http') = Len(http) + 1 /\ http'[Len(http')].method = "PATCH") =>
          \A p \in ServerPrIds :
            /\ DOMAIN threads'[p] = DOMAIN threads[p]
            /\ \A i \in DOMAIN threads[p] :
                 /\ threads'[p][i].id = threads[p][i].id
                 /\ DOMAIN threads'[p][i].comments = DOMAIN threads[p][i].comments
                 /\ \A k \in DOMAIN threads[p][i].comments :
                      \/ threads'[p][i].comments[k] = threads[p][i].comments[k]
                      \/ /\ p = azureConfig.prId
                         /\ threads[p][i].id = existingComment.threadId
                         /\ threads[p][i].comments[k].id = existingComment.commentId]_vars

\* ---------------------------------------------------------------- C28
\* the comment on the service that request r addresses, as a set of contents
Addressed(ts, r) ==
  UNION { { ts[r.prId][i].comments[k].content :
              k \in {j \in DOMAIN ts[r.prId][i].comments :
                       ts[r.prId][i].comments[j].id = r.commentId} } :
          i \in {j \in DOMAIN ts[r.prId] : ts[r.prId][j].id = r.threadId} }

\* C28: in replace mode the content sent to an existing marked comment is
\* the heading marker followed by the new review, whatever the comment held;
\* a PATCH of content the comment already holds, as when the same review is
\* posted twice, leaves the threads of the service as they are.
C28_ReplaceDiscardsOldContent ==
  /\ []((ReplaceMode /\ Len(http) = 2 /\ http[2].method = "PATCH") =>
          http[2].content = <<Marker, NL2>> \o review)
  /\ [][(/\ ReplaceMode
         /\ Len(http') = Len(http) + 1
         /\ http'[Len(http')].method = "PATCH"
         /\ Addressed(threads, http'[Len(http')]) = {<<Marker, NL2>> \o review}) =>
          threads' = threads]_vars

\* the second run has posted, in replace mode, the review that the first
\* run left in the comment
C28_Witness ==
  /\ run = 2 /\ pc = "done" /\ ReplaceMode
  /\ Len(http) = 2 /\ Listed(http[1]) /\ Marked(http[1].response.body.value) # {}
  /\ http[2].method = "PATCH" /\ Answered2xx(http[2])
  /\ FirstMarkedContent(http[1].response.body.value) = http[2].content
  /\ http[2].content = <<Marker, NL2>> \o review

\* ---------------------------------------------------------------- C29
\* both concurrent calls have returned, and every request of theirs was
\* answered 2xx, the listings with a body that parsed
BothPosted ==
  /\ posters # Unused
  /\ \A p \in Posters :
       /\ posters[p].pc = "done"
       /\ Len(posters[p].http) = 2
       /\ Listed(posters[p].http[1])
       /\ Answered2xx(posters[p].http[2])

\* C29: when two runs in replace mode post concurrently to a pull request
\* that had no marked thread, then after both have completed the pull
\* request has at most one thread whose first comment holds the marker.
C29_ConcurrentStickyUniqueness ==
  BothPosted => Cardinality(Marked(threads[RacePrId])) <= 1

\* ---------------------------------------------------------------- C30
\* C30: a run without AZURE_DEVOPS_TOKEN resolves no destination: every
\* strategy it runs yields null whatever the flags, git, the Azure CLI and
\* the other environment variables give, the pull request search of git+API
\* is not run, and the run sends no REST request.
C30_NoTokenNoDestination ==
  token = "" =>
    /\ azureConfig = Null
    /\ \A i \in DOMAIN tried :
         /\ tried[i].config = Null
         /\ tried[i].strategy = "gitApi" => ~tried[i].searched
    /\ ~prompted
    /\ pc \notin {"post", "write"}
    /\ http = <<>>

\* without a token, with --azure-pr: all three strategies ran, the Azure CLI
\* one fetched the pull request by id, and none gave a config
C30_Witness ==
  /\ token = "" /\ Resolved /\ options.azurePr # ""
  /\ Len(tried) = 3 /\ tried[2].shown
  /\ azureConfig = Null

====
